---- MODULE Spec2Model ----
(***************************************************************************)
(* crates/core_arch/src/riscv64/zk.rs: the RV64 scalar-cryptography        *)
(* wrappers (Zkne, Zknd, Zknh).  Each wrapper casts its u64 operands to    *)
(* i64, calls one LLVM intrinsic and casts the i64 result back to u64;     *)
(* aes64ks1i also checks its const generic RNUM with static_assert!.       *)
(*                                                                         *)
(* A 64-bit integer is written in base 256, least significant digit        *)
(* first: a u64 has eight digits in 0..255, an i64 has seven digits in     *)
(* 0..255 and a most significant digit in -128..127, so that in both       *)
(* cases the integer is the sum of digit[i] * 256^(i-1).                   *)
(***************************************************************************)
EXTENDS Integers, Sequences, FiniteSets, TLC

\* ------------------------------------------------------------ integers

IsU64(v) == /\ DOMAIN v = 1..8
            /\ \A i \in 1..8 : v[i] \in 0..255

IsI64(v) == /\ DOMAIN v = 1..8
            /\ \A i \in 1..7 : v[i] \in 0..255
            /\ v[8] \in -128..127

\* `x as i64` for x: u64, saturating at i64::MAX instead of wrapping.
AsI64Saturating(u) == IF u[8] >= 128 THEN <<255, 255, 255, 255, 255, 255, 255, 127>> ELSE u

\* `x as i64` for x: u64: the value modulo 2^64 in -2^63..2^63-1.
AsI64(u) == [i \in 1..8 |-> IF i = 8 /\ u[i] >= 128 THEN u[i] - 256 ELSE u[i]]

\* `x as u64` for x: i64: the value modulo 2^64 in 0..2^64-1.
AsU64(s) == [i \in 1..8 |-> IF i = 8 /\ s[i] < 0 THEN s[i] + 256 ELSE s[i]]

\* An i32 in base 256: three digits in 0..255 and a most significant digit
\* in -128..127.
IsI32(v) == /\ DOMAIN v = 1..4
            /\ \A i \in 1..3 : v[i] \in 0..255
            /\ v[4] \in -128..127

I32Value(v) == v[1] + 256 * v[2] + 65536 * v[3] + 16777216 * v[4]

\* `RNUM as i32` keeping only the low three bits of RNUM.
U8AsI32Masked(r) == <<r % 8, 0, 0, 0>>

\* `RNUM as i32` for RNUM: u8: zero extension, the upper 24 bits are 0.
U8AsI32(r) == <<r, 0, 0, 0>>

\* ------------------------------------------------------------ registers

\* The 64-bit register holding an i64 (two's complement), as eight bytes.
Encode(s) == [i \in 1..8 |-> IF s[i] < 0 THEN s[i] + 256 ELSE s[i]]

\* The i64 a 64-bit register holds.
Decode(p) == [i \in 1..8 |-> IF i = 8 /\ p[i] >= 128 THEN p[i] - 256 ELSE p[i]]

\* Bitwise exclusive or of two bytes.
XorBits[a \in 0..255, b \in 0..255] ==
    IF a = 0 THEN b
    ELSE IF b = 0 THEN a
    ELSE ((a + b) % 2) + 2 * XorBits[a \div 2, b \div 2]

XorByte(a, b) == XorBits[a, b]

Xor64(p, q) == [i \in 1..8 |-> XorByte(p[i], q[i])]

\* Bit i (0 = least significant) of register p.
Bit(p, i) == (p[(i \div 8) + 1] \div (2 ^ (i % 8))) % 2

\* p rotated right by n bits: bit i of the result is bit (i + n) mod 64 of p.
Ror64(p, n) ==
    [j \in 1..8 |->
        LET b(k) == Bit(p, (8 * (j - 1) + k + n) % 64)
        IN  b(0) + 2 * b(1) + 4 * b(2) + 8 * b(3)
            + 16 * b(4) + 32 * b(5) + 64 * b(6) + 128 * b(7)]

\* p shifted right by n bits, zeros shifted in.
Shr64(p, n) ==
    [j \in 1..8 |->
        LET b(k) == IF 8 * (j - 1) + k + n < 64
                    THEN Bit(p, 8 * (j - 1) + k + n) ELSE 0
        IN  b(0) + 2 * b(1) + 4 * b(2) + 8 * b(3)
            + 16 * b(4) + 32 * b(5) + 64 * b(6) + 128 * b(7)]

\* ------------------------------------------------------------ instructions
\* RISC-V Cryptography Extensions Volume I, v1.0.1, the sections the
\* wrappers' documentation cites.  Registers are eight bytes, byte 0 first.

\* The AES SubBytes table; AesSBox[b + 1] is the image of byte b.
AesSBox ==
   <<
       99, 124, 119, 123, 242, 107, 111, 197,  48,   1, 103,  43, 254, 215, 171, 118,
      202, 130, 201, 125, 250,  89,  71, 240, 173, 212, 162, 175, 156, 164, 114, 192,
      183, 253, 147,  38,  54,  63, 247, 204,  52, 165, 229, 241, 113, 216,  49,  21,
        4, 199,  35, 195,  24, 150,   5, 154,   7,  18, 128, 226, 235,  39, 178, 117,
        9, 131,  44,  26,  27, 110,  90, 160,  82,  59, 214, 179,  41, 227,  47, 132,
       83, 209,   0, 237,  32, 252, 177,  91, 106, 203, 190,  57,  74,  76,  88, 207,
      208, 239, 170, 251,  67,  77,  51, 133,  69, 249,   2, 127,  80,  60, 159, 168,
       81, 163,  64, 143, 146, 157,  56, 245, 188, 182, 218,  33,  16, 255, 243, 210,
      205,  12,  19, 236,  95, 151,  68,  23, 196, 167, 126,  61, 100,  93,  25, 115,
       96, 129,  79, 220,  34,  42, 144, 136,  70, 238, 184,  20, 222,  94,  11, 219,
      224,  50,  58,  10,  73,   6,  36,  92, 194, 211, 172,  98, 145, 149, 228, 121,
      231, 200,  55, 109, 141, 213,  78, 169, 108,  86, 244, 234, 101, 122, 174,   8,
      186, 120,  37,  46,  28, 166, 180, 198, 232, 221, 116,  31,  75, 189, 139, 138,
      112,  62, 181, 102,  72,   3, 246,  14,  97,  53,  87, 185, 134, 193,  29, 158,
      225, 248, 152,  17, 105, 217, 142, 148, 155,  30, 135, 233, 206,  85,  40, 223,
      140, 161, 137,  13, 191, 230,  66, 104,  65, 153,  45,  15, 176,  84, 187,  22 >>

SubByte(b) == AesSBox[b + 1]

InvSubByte(y) == CHOOSE x \in 0..255 : AesSBox[x + 1] = y

InvSBoxTable == [y \in 0..255 |-> InvSubByte(y)]

\* Multiplication by x in GF(2^8) modulo x^8 + x^4 + x^3 + x + 1.
XTime(b) == IF b >= 128 THEN XorByte((2 * b) % 256, 27) ELSE 2 * b

\* Multiplication of byte a by the polynomial k in GF(2^8).
GfProduct[a \in 0..255, k \in 0..15] ==
    IF k = 0 THEN 0
    ELSE XorByte(IF k % 2 = 1 THEN a ELSE 0, GfProduct[XTime(a), k \div 2])

GfMul(a, k) == GfProduct[a, k]

\* aes_rv64_shiftrows_fwd(rs2, rs1): the low half of ShiftRows of the state
\* whose columns 0,1 are rs1 and columns 2,3 are rs2.
ShiftRowsFwd(rs2, rs1) ==
    << rs1[1], rs1[6], rs2[3], rs2[8], rs1[5], rs2[2], rs2[7], rs1[4] >>

\* aes_rv64_shiftrows_inv(rs2, rs1).
ShiftRowsInv(rs2, rs1) ==
    << rs1[1], rs2[6], rs2[3], rs1[8], rs1[5], rs1[2], rs2[7], rs2[4] >>

SubBytes64(p) == [i \in 1..8 |-> SubByte(p[i])]

InvSubBytes64(p) == [i \in 1..8 |-> InvSBoxTable[p[i]]]

\* MixColumns of the two 32-bit columns of p.
MixColumnsFwd64(p) ==
    [i \in 1..8 |->
        LET c == 4 * ((i - 1) \div 4)
            r == (i - 1) % 4
            b(k) == p[c + ((r + k) % 4) + 1]
        IN  XorByte(XorByte(GfMul(b(0), 2), GfMul(b(1), 3)), XorByte(b(2), b(3)))]

MixColumnsInv64(p) ==
    [i \in 1..8 |->
        LET c == 4 * ((i - 1) \div 4)
            r == (i - 1) % 4
            b(k) == p[c + ((r + k) % 4) + 1]
        IN  XorByte(XorByte(GfMul(b(0), 14), GfMul(b(1), 11)),
                    XorByte(GfMul(b(2), 13), GfMul(b(3), 9)))]

\* aes_decode_rcon: the round constants for rnum 0x0..0xA.
AesRcon == << 1, 2, 4, 8, 16, 32, 64, 128, 27, 54, 0 >>

Instr_aes64es(rs1, rs2) == SubBytes64(ShiftRowsFwd(rs2, rs1))

Instr_aes64esm(rs1, rs2) == MixColumnsFwd64(SubBytes64(ShiftRowsFwd(rs2, rs1)))

Instr_aes64ds(rs1, rs2) == InvSubBytes64(ShiftRowsInv(rs2, rs1))

Instr_aes64dsm(rs1, rs2) == MixColumnsInv64(InvSubBytes64(ShiftRowsInv(rs2, rs1)))

\* rnum is the instruction's 4-bit immediate; 0xB..0xF are reserved
\* encodings, for which the instruction raises an illegal-instruction
\* exception and produces no result.
Instr_aes64ks1i(rs1, rnum) ==
    LET tmp1 == << rs1[5], rs1[6], rs1[7], rs1[8] >>
        tmp2 == IF rnum = 10 THEN tmp1
                ELSE << tmp1[2], tmp1[3], tmp1[4], tmp1[1] >>
        rc   == AesRcon[rnum + 1]
        tmp3 == << SubByte(tmp2[1]), SubByte(tmp2[2]), SubByte(tmp2[3]), SubByte(tmp2[4]) >>
        res  == << XorByte(tmp3[1], rc), tmp3[2], tmp3[3], tmp3[4] >>
    IN  << res[1], res[2], res[3], res[4], res[1], res[2], res[3], res[4] >>

Instr_aes64ks2(rs1, rs2) ==
    LET w0(i) == XorByte(rs1[i + 4], rs2[i])
        w1(i) == XorByte(w0(i), rs2[i + 4])
    IN  [i \in 1..8 |-> IF i <= 4 THEN w0(i) ELSE w1(i - 4)]

Instr_sha512sig0(rs1) == Xor64(Xor64(Ror64(rs1, 1), Ror64(rs1, 8)), Shr64(rs1, 7))

Instr_sha512sig1(rs1) == Xor64(Xor64(Ror64(rs1, 19), Ror64(rs1, 61)), Shr64(rs1, 6))

Instr_sha512sum0(rs1) == Xor64(Xor64(Ror64(rs1, 28), Ror64(rs1, 34)), Ror64(rs1, 39))

Instr_sha512sum1(rs1) == Xor64(Xor64(Ror64(rs1, 14), Ror64(rs1, 18)), Ror64(rs1, 41))

\* ------------------------------------------------------------ extern block

\* extern "unadjusted": the intrinsics, on i64 (and, for rnum, i32) values.
_aes64es(rs1, rs2) == Decode(Instr_aes64es(Encode(rs1), Encode(rs2)))

_aes64esm(rs1, rs2) == Decode(Instr_aes64esm(Encode(rs1), Encode(rs2)))

_aes64ds(rs1, rs2) == Decode(Instr_aes64ds(Encode(rs1), Encode(rs2)))

_aes64dsm(rs1, rs2) == Decode(Instr_aes64dsm(Encode(rs1), Encode(rs2)))

_aes64ks1i(rs1, rnum) == Decode(Instr_aes64ks1i(Encode(rs1), I32Value(rnum)))

_aes64ks2(rs1, rs2) == Decode(Instr_aes64ks2(Encode(rs1), Encode(rs2)))

_sha512sig0(rs1) == Decode(Instr_sha512sig0(Encode(rs1)))

_sha512sig1(rs1) == Decode(Instr_sha512sig1(Encode(rs1)))

_sha512sum0(rs1) == Decode(Instr_sha512sum0(Encode(rs1)))

_sha512sum1(rs1) == Decode(Instr_sha512sum1(Encode(rs1)))

\* #[link_name = ...] of each extern fn.
LinkName(ext) ==
    CASE ext = "_aes64es" -> "llvm.riscv.aes64es"
      [] ext = "_aes64esm" -> "llvm.riscv.aes64esm"
      [] ext = "_aes64ds" -> "llvm.riscv.aes64ds"
      [] ext = "_aes64dsm" -> "llvm.riscv.aes64dsm"
      [] ext = "_aes64ks1i" -> "llvm.riscv.aes64ks1i"
      [] ext = "_aes64ks2" -> "llvm.riscv.aes64ks2"
      [] ext = "_sha512sig0" -> "llvm.riscv.sha512sig0"
      [] ext = "_sha512sig1" -> "llvm.riscv.sha512sig1"
      [] ext = "_sha512sum0" -> "llvm.riscv.sha512sum0"
      [] ext = "_sha512sum1" -> "llvm.riscv.sha512sum1"

\* The encodings of an intrinsic call that name an instruction: the rnum
\* values 0xB..0xF of aes64ks1i are reserved.
LegalCall(ext, args) == ext = "_aes64ks1i" => I32Value(args[2]) \in 0..10

\* A call of extern fn ext with the argument list args.
CallExtern(ext, args) ==
    CASE ext = "_aes64es" -> _aes64es(args[1], args[2])
      [] ext = "_aes64esm" -> _aes64esm(args[1], args[2])
      [] ext = "_aes64ds" -> _aes64ds(args[1], args[2])
      [] ext = "_aes64dsm" -> _aes64dsm(args[1], args[2])
      [] ext = "_aes64ks1i" -> _aes64ks1i(args[1], args[2])
      [] ext = "_aes64ks2" -> _aes64ks2(args[1], args[2])
      [] ext = "_sha512sig0" -> _sha512sig0(args[1])
      [] ext = "_sha512sig1" -> _sha512sig1(args[1])
      [] ext = "_sha512sum0" -> _sha512sum0(args[1])
      [] ext = "_sha512sum1" -> _sha512sum1(args[1])

\* ------------------------------------------------------------ wrappers

Wrappers == { "aes64es", "aes64esm", "aes64ds", "aes64dsm", "aes64ks1i",
              "aes64ks2", "sha512sig0", "sha512sig1", "sha512sum0", "sha512sum1" }

\* The wrappers with operands (rs1, rs2); the others take rs1 only.
TwoOperand == { "aes64es", "aes64esm", "aes64ds", "aes64dsm", "aes64ks2" }

AllFeatures == { "zkne", "zknd", "zknh" }

\* #[target_feature(enable = ..)]: the features the wrapper is compiled with,
\* all of which the executing CPU must have, or the call is undefined.
target_feature(fn) ==
    CASE fn = "aes64es" -> {"zkne"}
      [] fn = "aes64esm" -> {"zkne"}
      [] fn = "aes64ds" -> {"zknd"}
      [] fn = "aes64dsm" -> {"zknd"}
      [] fn = "aes64ks1i" -> {"zkne", "zknd"}
      [] fn = "aes64ks2" -> {"zkne", "zknd"}
      [] fn = "sha512sig0" -> {"zknh"}
      [] fn = "sha512sig1" -> {"zknh"}
      [] fn = "sha512sum0" -> {"zknh"}
      [] fn = "sha512sum1" -> {"zknh"}

\* static_assert!(RNUM <= 10) written with < for <=.
static_assert_strict(RNUM) == RNUM < 10

\* static_assert!(RNUM <= 10) left out.
static_assert_absent(RNUM) == TRUE

\* static_assert!(RNUM <= 10) of aes64ks1i.
static_assert(RNUM) == RNUM <= 10

\* The range check written as assert!, evaluated when the call runs.
CheckedAtRun == "run"

\* static_assert! is evaluated when the instantiation aes64ks1i::<RNUM> is
\* compiled, never when the call runs.
CheckedAt == "compile"

\* sha512sum1 calling _sha512sum0, as after copying the body of sha512sum0.
CalleeCopied(fn) ==
    CASE fn = "aes64es" -> "_aes64es"
      [] fn = "aes64esm" -> "_aes64esm"
      [] fn = "aes64ds" -> "_aes64ds"
      [] fn = "aes64dsm" -> "_aes64dsm"
      [] fn = "aes64ks1i" -> "_aes64ks1i"
      [] fn = "aes64ks2" -> "_aes64ks2"
      [] fn = "sha512sig0" -> "_sha512sig0"
      [] fn = "sha512sig1" -> "_sha512sig1"
      [] fn = "sha512sum0" -> "_sha512sum0"
      [] fn = "sha512sum1" -> "_sha512sum0"

\* The extern fn the wrapper's body calls.
Callee(fn) ==
    CASE fn = "aes64es" -> "_aes64es"
      [] fn = "aes64esm" -> "_aes64esm"
      [] fn = "aes64ds" -> "_aes64ds"
      [] fn = "aes64dsm" -> "_aes64dsm"
      [] fn = "aes64ks1i" -> "_aes64ks1i"
      [] fn = "aes64ks2" -> "_aes64ks2"
      [] fn = "sha512sig0" -> "_sha512sig0"
      [] fn = "sha512sig1" -> "_sha512sig1"
      [] fn = "sha512sum0" -> "_sha512sum0"
      [] fn = "sha512sum1" -> "_sha512sum1"

\* The argument list with the operands exchanged.
ArgsSwapped(fn, RNUM, rs1, rs2) ==
    IF fn \in TwoOperand THEN << AsI64(rs2), AsI64(rs1) >>
    ELSE IF fn = "aes64ks1i" THEN << AsI64(rs1), U8AsI32(RNUM) >>
    ELSE << AsI64(rs1) >>

\* The argument list of the wrapper's call: (rs1 as i64, rs2 as i64),
\* (rs1 as i64, RNUM as i32) or (rs1 as i64).
Args(fn, RNUM, rs1, rs2) ==
    IF fn \in TwoOperand THEN << AsI64(rs1), AsI64(rs2) >>
    ELSE IF fn = "aes64ks1i" THEN << AsI64(rs1), U8AsI32(RNUM) >>
    ELSE << AsI64(rs1) >>

\* ------------------------------------------------------------ bounds

\* aes64ks1i::<RNUM> is instantiated with RNUM in 0..MaxRnum.
MaxRnum == 15

\* Operand values: below 2^63, above 2^63, 2^63 and 2^64 - 1.
W_mixed == << 239, 205, 171, 137, 103, 69, 35, 1 >>

W_high == << 16, 50, 84, 118, 152, 186, 220, 254 >>

W_min == << 0, 0, 0, 0, 0, 0, 0, 128 >>

W_max == << 255, 255, 255, 255, 255, 255, 255, 255 >>

Words == { W_mixed, W_high, W_min, W_max }

WordsMT == { W_mixed, W_high }

Threads == { "t1", "t2" }

\* None: a value not there (no second operand, no result yet).
None == << >>

\* A call site: a wrapper and, for aes64ks1i, its const generic argument.
Site(fn, RNUM) == [fn |-> fn, RNUM |-> RNUM]

Sites == { Site(fn, None) : fn \in Wrappers \ { "aes64ks1i" } }
         \cup { Site("aes64ks1i", r) : r \in 0..MaxRnum }

NoSite == Site("none", None)

\* ------------------------------------------------------------ state

VARIABLES
    features,   \* the target features of the executing CPU
    site,       \* site[t]: the call site thread t executes, or NoSite
    build,      \* "pending", "ok" or "error": the outcome of compilation
    th          \* th[t]: the frame of thread t's wrapper call

vars == << features, site, build, th >>

Idle == [pc |-> "idle", rs1 |-> None, rs2 |-> None, args |-> None,
         link |-> None, ncalls |-> 0, ret |-> None, result |-> None,
         ub |-> FALSE, prev |-> None]

\* The instantiations of aes64ks1i the static assertion rejects.
Rejected(t) ==
    /\ site[t] # NoSite
    /\ site[t].fn = "aes64ks1i"
    /\ ~static_assert(site[t].RNUM)

\* The arguments of a call taken from whichever thread's call is pending,
\* as if the wrappers passed them through one shared buffer.
CallArgsShared(t) ==
    LET fn == site[t].fn
        others == { u \in Threads \ {t} :
                      /\ th[u].pc = "called"
                      /\ Len(th[u].args) = Len(th[t].args)
                      /\ (fn = "aes64ks1i") = (site[u].fn = "aes64ks1i") }
    IN  IF others # {} THEN th[CHOOSE u \in others : TRUE].args ELSE th[t].args

\* The arguments the wrapper's call passes: its own.
CallArgs(t) == th[t].args

\* The intrinsic's result taken from whichever thread's call returned, as
\* if the wrappers received it through one shared slot.
ReturnedShared(t) ==
    LET others == { u \in Threads \ {t} : th[u].pc \in { "invoked", "returned" } }
    IN  IF others # {} THEN th[CHOOSE u \in others : TRUE].ret ELSE th[t].ret

\* The value the wrapper casts and returns: its own call's result.
Returned(t) == th[t].ret

Init ==
    /\ features \in SUBSET AllFeatures
    /\ site \in [Threads -> Sites \cup { NoSite }]
    /\ site["t1"] # NoSite
    /\ site["t2"] = NoSite
    /\ build = "pending"
    /\ th = [t \in Threads |-> Idle]

SitesMT == { Site(fn, None) : fn \in Wrappers \ { "aes64ks1i" } }
           \cup { Site("aes64ks1i", r) : r \in { 0, 10, 11 } }

FeaturesMT == { AllFeatures, { "zkne" } }

InitMT ==
    /\ features \in FeaturesMT
    /\ site \in [Threads -> SitesMT]
    /\ build = "pending"
    /\ th = [t \in Threads |-> Idle]

\* Compilation of the program: every instantiation's static assertion is
\* evaluated; one failure fails the build and nothing runs.
Compile ==
    /\ build = "pending"
    /\ build' = IF CheckedAt = "compile" /\ \E t \in Threads : Rejected(t)
                THEN "error" ELSE "ok"
    /\ UNCHANGED << features, site, th >>

\* Thread t calls its wrapper with operands from W: the arguments are cast.
Enter(t, W) ==
    /\ build = "ok"
    /\ site[t] # NoSite
    /\ th[t].pc \in { "idle", "returned" }
    /\ \E rs1 \in W :
       \E rs2 \in (IF site[t].fn \in TwoOperand THEN W ELSE { None }) :
          th' = [th EXCEPT ![t] =
                   IF CheckedAt = "run" /\ Rejected(t)
                   THEN [Idle EXCEPT !.pc = "panicked", !.rs1 = rs1, !.rs2 = rs2]
                   ELSE [Idle EXCEPT
                           !.pc = "called", !.rs1 = rs1, !.rs2 = rs2,
                           !.args = Args(site[t].fn, site[t].RNUM, rs1, rs2),
                           !.ub = ~(target_feature(site[t].fn) \subseteq features)]]
    /\ UNCHANGED << features, site, build >>

\* The wrapper's one call of its extern fn.
Invoke(t) ==
    /\ th[t].pc = "called"
    /\ LET ext == Callee(site[t].fn)
           args == CallArgs(t)
       IN  th' = [th EXCEPT ![t] =
                    IF LegalCall(ext, args)
                    THEN [@ EXCEPT !.pc = "invoked", !.link = LinkName(ext),
                                   !.ncalls = @ + 1, !.ret = CallExtern(ext, args)]
                    ELSE [@ EXCEPT !.pc = "trapped", !.link = LinkName(ext),
                                   !.ncalls = @ + 1]]
    /\ UNCHANGED << features, site, build >>

\* The call on a CPU without a feature the wrapper is compiled with is
\* undefined: it may trap or leave any value (or run as Invoke does).
InvokeUndefined(t, W) ==
    /\ th[t].pc = "called"
    /\ th[t].ub
    /\ \/ th' = [th EXCEPT ![t].pc = "trapped"]
       \/ \E w \in W :
            th' = [th EXCEPT ![t].pc = "invoked", ![t].ret = AsI64(w)]
    /\ UNCHANGED << features, site, build >>

\* The wrapper casts the call's result and returns it.
Return(t) ==
    /\ th[t].pc = "invoked"
    /\ th' = [th EXCEPT ![t].pc = "returned", ![t].result = AsU64(Returned(t))]
    /\ UNCHANGED << features, site, build >>

\* Thread t calls its wrapper again with the operands of the call that just
\* returned, whose result is kept in prev.
Again(t) ==
    /\ th[t].pc = "returned"
    /\ ~th[t].ub
    /\ th' = [th EXCEPT ![t] =
                [Idle EXCEPT
                   !.pc = "called", !.rs1 = th[t].rs1, !.rs2 = th[t].rs2,
                   !.args = Args(site[t].fn, site[t].RNUM, th[t].rs1, th[t].rs2),
                   !.prev = th[t].result]]
    /\ UNCHANGED << features, site, build >>

Next ==
    \/ Compile
    \/ \E t \in Threads : Enter(t, Words)
    \/ \E t \in Threads : Invoke(t)
    \/ \E t \in Threads : InvokeUndefined(t, Words)
    \/ \E t \in Threads : Return(t)
    \/ \E t \in Threads : Again(t)

NextMT ==
    \/ Compile
    \/ \E t \in Threads : Enter(t, WordsMT)
    \/ \E t \in Threads : Invoke(t)
    \/ \E t \in Threads : InvokeUndefined(t, WordsMT)
    \/ \E t \in Threads : Return(t)
    \/ \E t \in Threads : Again(t)

\* A program with one thread, every wrapper and every operand value.
Spec == Init /\ [][Next]_vars

\* A program with two threads calling concurrently.
SpecMT == InitMT /\ [][NextMT]_vars

\* A wrapper's body is straight-line code: a thread that has entered it
\* goes on to execute the call and the return.
SpecLive ==
    /\ Init
    /\ [][Next]_vars
    /\ \A t \in Threads : WF_vars(Invoke(t)) /\ WF_vars(Return(t))

\* ------------------------------------------------------------ properties

Active(t) == site[t] # NoSite

Running(t) == th[t].pc \in { "called", "invoked", "returned" }

\* The instruction of wrapper fn applied to unsigned 64-bit registers.
Reference(fn, RNUM, rs1, rs2) ==
    CASE fn = "aes64es" -> Instr_aes64es(rs1, rs2)
      [] fn = "aes64esm" -> Instr_aes64esm(rs1, rs2)
      [] fn = "aes64ds" -> Instr_aes64ds(rs1, rs2)
      [] fn = "aes64dsm" -> Instr_aes64dsm(rs1, rs2)
      [] fn = "aes64ks1i" -> Instr_aes64ks1i(rs1, RNUM)
      [] fn = "aes64ks2" -> Instr_aes64ks2(rs1, rs2)
      [] fn = "sha512sig0" -> Instr_sha512sig0(rs1)
      [] fn = "sha512sig1" -> Instr_sha512sig1(rs1)
      [] fn = "sha512sum0" -> Instr_sha512sum0(rs1)
      [] fn = "sha512sum1" -> Instr_sha512sum1(rs1)

\* The wrapper's call executed on its own, in one step.
Alone(fn, RNUM, rs1, rs2) ==
    AsU64(CallExtern(Callee(fn), Args(fn, RNUM, rs1, rs2)))

\* C1: once the program is compiled, an instantiation aes64ks1i::<RNUM> with
\* RNUM in 0..10 is accepted and one with RNUM in 11..15 is rejected; the
\* outcome is fixed before any rs1 exists and no call is refused when it runs.
C1_StaticRangeCheck ==
    \A t \in Threads :
        (site[t].fn = "aes64ks1i" /\ build # "pending") =>
            /\ site[t].RNUM \in 0..10 => build = "ok"
            /\ site[t].RNUM \in 11..15 => build = "error"
            /\ th[t].pc # "panicked"

C1_Witness ==
    /\ site["t1"] = Site("aes64ks1i", 11)
    /\ build = "error"

\* C2: llvm.riscv.aes64ks1i is never called (nor about to be called) with an
\* rnum outside 0..10, and an instantiation with RNUM above 10 never runs:
\* its only outcome is the failed build.
C2_RejectedBeforeExecution ==
    \A t \in Threads :
        site[t].fn = "aes64ks1i" =>
            /\ Running(t) \/ th[t].pc = "trapped" =>
                   I32Value(th[t].args[2]) \in 0..10
            /\ site[t].RNUM > 10 => th[t] = Idle /\ build # "ok"

C2_Witness ==
    /\ site["t1"] = Site("aes64ks1i", 15)
    /\ build = "error"
    /\ th["t1"] = Idle

\* C3: a returned result is the instruction applied to the unsigned operands,
\* all 64 bits of operands and result kept: the casts wrap modulo 2^64, and
\* u64 -> i64 -> u64 gives the operand back.
C3_Reinterpretation ==
    \A t \in Threads :
        /\ Running(t) =>
              /\ IsI64(th[t].args[1])
              /\ AsU64(th[t].args[1]) = th[t].rs1
              /\ AsU64(AsI64(th[t].rs1)) = th[t].rs1
        /\ (th[t].pc = "returned" /\ ~th[t].ub) =>
              /\ IsU64(th[t].result)
              /\ th[t].result =
                    Reference(site[t].fn, site[t].RNUM, th[t].rs1, th[t].rs2)

C3_Witness ==
    \E t \in Threads :
        /\ th[t].pc = "returned"
        /\ ~th[t].ub
        /\ th[t].rs1 = W_min
        /\ th[t].result[8] >= 128

\* C4: a two-operand wrapper passes rs1 first and rs2 second, and its result
\* is the instruction applied to (rs1, rs2), not to (rs2, rs1).
C4_OperandOrder ==
    \A t \in Threads :
        (site[t].fn \in TwoOperand /\ Running(t)) =>
            LET fn == site[t].fn
                straight == Reference(fn, None, th[t].rs1, th[t].rs2)
                swapped == Reference(fn, None, th[t].rs2, th[t].rs1)
            IN  /\ Encode(th[t].args[1]) = th[t].rs1
                /\ Encode(th[t].args[2]) = th[t].rs2
                /\ (th[t].pc = "returned" /\ ~th[t].ub) =>
                      /\ th[t].result = straight
                      /\ straight # swapped => th[t].result # swapped

C4_Witness ==
    \E t \in Threads :
        /\ site[t].fn = "aes64dsm"
        /\ th[t].pc = "returned"
        /\ ~th[t].ub
        /\ th[t].rs1 = W_high
        /\ th[t].rs2 = W_mixed
        /\ Reference("aes64dsm", None, W_high, W_mixed)
              # Reference("aes64dsm", None, W_mixed, W_high)

\* C5: a wrapper called again with the same operands (and RNUM) returns what
\* it returned before, whatever the other thread called before or between.
C5_Pure ==
    \A t \in Threads :
        (th[t].pc = "returned" /\ th[t].prev # None) =>
            th[t].result = th[t].prev

C5_Witness ==
    /\ th["t1"].pc = "returned"
    /\ th["t1"].prev # None
    /\ th["t2"].pc = "invoked"
    /\ site["t1"] # site["t2"]

\* C6: a call of aes64ks1i or aes64ks2 on a CPU with zkne or zknd is defined.
C6_EitherFeatureSuffices ==
    \A t \in Threads :
        ( /\ site[t].fn \in { "aes64ks1i", "aes64ks2" }
          /\ features \cap { "zkne", "zknd" } # {}
          /\ th[t].pc # "idle" ) =>
            /\ ~th[t].ub
            /\ th[t].pc # "trapped"

Supported(t) == Active(t) /\ target_feature(site[t].fn) \subseteq features

NoFailureState ==
    /\ \A t \in Threads :
          Supported(t) =>
              /\ th[t].pc \in { "idle", "called", "invoked", "returned" }
              /\ th[t].pc = "returned" => IsU64(th[t].result)
    /\ build = "error" =>
          \E t \in Threads : site[t].fn = "aes64ks1i" /\ site[t].RNUM > 10

\* C7: on a CPU with the features a wrapper is compiled with, its call is
\* never in a failed state (no panic, no trap) and, once entered, goes on to
\* return a u64; a failed build is the rejection of an aes64ks1i with RNUM
\* above 10.
C7_NoRuntimeFailure ==
    /\ []NoFailureState
    /\ \A t \in Threads :
          (Supported(t) /\ th[t].pc = "called")
              ~> (th[t].pc = "returned" /\ IsU64(th[t].result))

C7_Witness ==
    \E t \in Threads :
        /\ site[t] = Site("aes64ks1i", 10)
        /\ features = { "zkne", "zknd" }
        /\ th[t].pc = "returned"
        /\ th[t].rs1 = W_max

\* C8: a step of one thread's call changes no other thread's frame and no
\* other state, and a call that returns under any interleaving returns what
\* the same call returns executed alone.
C8_ConcurrentCalls ==
    [][ \A t \in Threads :
           th'[t] # th[t] =>
              /\ \A u \in Threads \ {t} : th'[u] = th[u]
              /\ << features', site', build' >> = << features, site, build >>
              /\ (th'[t].pc = "returned" /\ ~th'[t].ub) =>
                    th'[t].result =
                       Alone(site[t].fn, site[t].RNUM, th'[t].rs1, th'[t].rs2)
      ]_vars

C8_Witness ==
    /\ th["t1"].pc = "returned"
    /\ th["t2"].pc = "returned"
    /\ ~th["t1"].ub
    /\ ~th["t2"].ub
    /\ site["t1"].fn = "aes64es"
    /\ site["t2"].fn = "aes64ks2"
    /\ th["t1"].rs1 # th["t2"].rs1

\* C9: a returned call made exactly one intrinsic call, to llvm.riscv.<name
\* of the wrapper>, and no two wrappers bind to the same intrinsic.
C9_OneIntrinsicEach ==
    /\ \A f, g \in Wrappers :
          LinkName(Callee(f)) = LinkName(Callee(g)) => f = g
    /\ \A t \in Threads :
          (th[t].pc = "returned" /\ ~th[t].ub) =>
              /\ th[t].ncalls = 1
              /\ th[t].link = "llvm.riscv." \o site[t].fn

C9_Witness ==
    \E t \in Threads :
        /\ site[t].fn = "sha512sum1"
        /\ th[t].pc = "returned"
        /\ ~th[t].ub
        /\ th[t].ncalls = 1

\* C10: for an accepted RNUM, aes64ks1i passes an i32 whose value is RNUM,
\* not negative, and passes rs1 with all its bits as the first argument.
C10_RnumImmediate ==
    \A t \in Threads :
        (site[t].fn = "aes64ks1i" /\ Running(t)) =>
            /\ site[t].RNUM \in 0..10
            /\ Len(th[t].args) = 2
            /\ IsI32(th[t].args[2])
            /\ I32Value(th[t].args[2]) = site[t].RNUM
            /\ I32Value(th[t].args[2]) >= 0
            /\ Encode(th[t].args[1]) = th[t].rs1

C10_Witness ==
    \E t \in Threads :
        /\ site[t] = Site("aes64ks1i", 10)
        /\ th[t].pc = "invoked"
        /\ th[t].rs1 = W_high
        /\ th[t].args[2] = << 10, 0, 0, 0 >>

====
